---- MODULE Spec2Model ----
(***************************************************************************)
(* Model of the flight search tool (src/src/flight_search_tool.rs) and its *)
(* metrics (src/src/metrics.rs).  One invocation of FlightSearchTool::call *)
(* is a state machine: read the API key, apply the argument defaults,      *)
(* resolve source and destination through the auto-complete endpoint,      *)
(* build the query, call the search endpoint, parse and render.            *)
(*                                                                         *)
(* Option<T> is a sequence: <<>> is None, <<v>> is Some(v).                *)
(* f64 prices are integers counted in thousandths of a currency unit.      *)
(* A date string is a record [y, m, d]; a NaiveDate is a day number.       *)
(***************************************************************************)
EXTENDS Integers, Sequences, FiniteSets, TLC

VARIABLES
    env_key,        \* the RAPIDAPI_KEY environment variable
    now,            \* Utc::now(), as a day number
    args,           \* FlightSearchArgs
    pc,             \* position inside call
    endpoint,       \* which location is being resolved
    defaults,       \* the locals of call after the defaults were applied
    resp,           \* the last response received from the provider
    loc_result,     \* Result<SkyscannerLocation, _> of the running resolution
    source_loc,     \* Option<SkyscannerLocation>
    dest_loc,       \* Option<SkyscannerLocation>
    query_params,   \* Option<query of the search request>
    requests,       \* the network requests issued so far, in order
    result,         \* what call returned (or that it panicked)
    metrics,        \* the two process-wide counters
    flight_options, \* the vector of FlightOption that call fills
    once,           \* the OnceLock statics METER and COUNTER (one per counter)
    threads,        \* the threads running inc_flight_status_success/_error
    instruments     \* the meters and counters built so far, and their values

vars == <<env_key, now, args, pc, endpoint, defaults, resp, loc_result,
          source_loc, dest_loc, query_params, requests, result, metrics, flight_options,
          once, threads, instruments>>

None == <<>>
Some(v) == <<v>>
IsSome(o) == o # <<>>
Unwrap(o) == o[1]
UnwrapOr(o, d) == IF o = <<>> THEN d ELSE o[1]
OrElse(o, p) == IF o = <<>> THEN p ELSE o

(***************************************************************************)
(* Bounds of the model.                                                    *)
(***************************************************************************)
MaxSuggestions == 2     \* suggestions in an auto-complete response
MaxOffers == 7          \* offers in a search response
MaxBucketSize == 3      \* offers in one bucket of a search response
MaxRichItems == 2       \* items in a single-bucket response of varied offers

(***************************************************************************)
(* Dates: chrono's NaiveDate with the format "%Y-%m-%d".                   *)
(***************************************************************************)
Years == 2024..2027      \* the window of calendar years the model covers
BaseYear == CHOOSE y \in Years : \A z \in Years : y <= z

IsLeap(y) == (y % 4 = 0 /\ y % 100 # 0) \/ y % 400 = 0

DaysInMonth(y, m) ==
    IF m = 2 THEN (IF IsLeap(y) THEN 29 ELSE 28)
    ELSE IF m \in {4, 6, 9, 11} THEN 30 ELSE 31

DaysInYear(y) == IF IsLeap(y) THEN 366 ELSE 365

RECURSIVE DaysBeforeYear(_)
DaysBeforeYear(y) == IF y <= BaseYear THEN 0 ELSE DaysBeforeYear(y - 1) + DaysInYear(y - 1)

RECURSIVE DaysBeforeMonth(_, _)
DaysBeforeMonth(y, m) == IF m <= 1 THEN 0 ELSE DaysBeforeMonth(y, m - 1) + DaysInMonth(y, m - 1)

\* NaiveDate::parse_from_str(s, "%Y-%m-%d"): None when s is not a calendar date
ParseDate(s) ==
    IF /\ s.y \in Years
       /\ s.m \in 1..12
       /\ s.d \in 1..DaysInMonth(s.y, s.m)
    THEN Some(DaysBeforeYear(s.y) + DaysBeforeMonth(s.y, s.m) + (s.d - 1))
    ELSE None

RECURSIVE FormatFrom(_, _, _)
FormatFrom(y, m, n) ==
    IF n >= DaysInYear(y) /\ m = 1 THEN FormatFrom(y + 1, 1, n - DaysInYear(y))
    ELSE IF n >= DaysInMonth(y, m) THEN FormatFrom(y, m + 1, n - DaysInMonth(y, m))
    ELSE [y |-> y, m |-> m, d |-> n + 1]

\* date.format("%Y-%m-%d").to_string()
FormatDate(n) == FormatFrom(BaseYear, 1, n)

DayNumber(y, m, d) == Unwrap(ParseDate([y |-> y, m |-> m, d |-> d]))

DepartureOffsetDays == 30
ReturnOffsetDays == 7

(***************************************************************************)
(* JSON scalars as serde_json sees them: as_str is Some only for a string, *)
(* as_f64 and as_u64 only for a number.                                    *)
(***************************************************************************)
JAbsent == [t |-> "absent", s |-> "", n |-> 0]
JStr(s) == [t |-> "string", s |-> s, n |-> 0]
JNum(n) == [t |-> "number", s |-> "", n |-> n]

AsStr(j) == IF j.t = "string" THEN Some(j.s) ELSE None
AsF64(j) == IF j.t = "number" THEN Some(j.n) ELSE None
AsU64(j) == IF j.t = "number" /\ j.n >= 0 THEN Some(j.n) ELSE None

(***************************************************************************)
(* Errors and results.                                                     *)
(***************************************************************************)
ErrorKinds == {"HttpRequestFailed", "InvalidResponse", "ApiError", "MissingApiKey"}

\* msg is the payload of an ApiError: what format! put into the string
NoResult == [kind |-> "none", err |-> "", msg |-> <<>>, text |-> "", blocks |-> <<>>]
ErrWith(e, msg) == [kind |-> "err", err |-> e, msg |-> msg, text |-> "", blocks |-> <<>>]
Err(e) == ErrWith(e, <<>>)
Panic == [kind |-> "panic", err |-> "", msg |-> <<>>, text |-> "", blocks |-> <<>>]
Ok(text, blocks) ==
    [kind |-> "ok", err |-> "", msg |-> <<>>, text |-> text, blocks |-> blocks]

\* format!("Status: {}, Response: {}", status, text) and
\* format!("Auto-complete failed: {}: {}", status, text); the text of a response
\* is what it parses to, or that it does not parse
ApiErrorMessage(prefix, r) ==
    <<[prefix |-> prefix, status |-> r.status,
       body |-> [parses |-> r.parses, doc |-> r.doc]]>>

NoLocation == [sky_id |-> "", entity_id |-> ""]
LocOk(l) == [ok |-> TRUE, err |-> "", msg |-> <<>>, loc |-> l]
LocErrWith(e, msg) == [ok |-> FALSE, err |-> e, msg |-> msg, loc |-> NoLocation]
LocErr(e) == LocErrWith(e, <<>>)

\* IsSuccess with the client errors let through
IsSuccessLoose(status) == status \in 200..499

IsSuccess(status) == status \in 200..299

(***************************************************************************)
(* The inputs of one invocation.                                           *)
(***************************************************************************)
\* RAPIDAPI_KEY: unset, set to a legal header value, or set to a value with a
\* byte (a newline, say) that HeaderValue refuses
Keys ==
    { [set |-> FALSE, header_ok |-> FALSE],
      [set |-> TRUE, header_ok |-> TRUE],
      [set |-> TRUE, header_ok |-> FALSE] }

DateString(y, m, d) == [y |-> y, m |-> m, d |-> d]

Sources == {"", "BOM"}
Destinations == {"", "DEL"}
DepartureDates ==
    { None, Some(DateString(2025, 2, 24)), Some(DateString(2025, 12, 28)),
      Some(DateString(2025, 2, 30)) }
ReturnDates == { None, Some(DateString(2025, 3, 1)) }
Services == { None, Some("business") }
AdultCounts == { None, Some(2) }
Currencies == { None, Some("EUR") }
Nows == { DayNumber(2025, 11, 5), DayNumber(2025, 12, 15) }

FlightSearchArgs ==
    [ source : Sources, destination : Destinations,
      departure_date : DepartureDates, return_date : ReturnDates,
      service : Services, adults : AdultCounts, currency : Currencies ]

NoMetrics == [success |-> 0, error |-> <<>>]

(***************************************************************************)
(* The statics of metrics.rs and otel.rs before their first use, and the   *)
(* threads that are about to run search calls.                             *)
(***************************************************************************)
NumThreads == 2
MaxIncrements == 2

Threads == 1..NumThreads
CounterNames == {"flight_status_success", "flight_status_error"}
OnceLocks == CounterNames \cup {"METER"}

\* OnceLock::new()
OnceLockNew == [state |-> "uninit", instance |-> 0]

NoOnce == [l \in OnceLocks |-> OnceLockNew]
NoThreads == [t \in Threads |-> [pc |-> "idle", counter |-> "", ref |-> 0, left |-> MaxIncrements]]
NoInstruments ==
    [ meters |-> 0,
      built |-> [c \in CounterNames |-> 0],
      value |-> [c \in CounterNames |-> <<>>],
      calls |-> [c \in CounterNames |-> 0],
      returned |-> [c \in CounterNames |-> {}] ]

NoConcurrency ==
    /\ once = NoOnce
    /\ threads = NoThreads
    /\ instruments = NoInstruments

Init ==
    /\ env_key \in Keys
    /\ now \in Nows
    /\ args \in FlightSearchArgs
    /\ pc = "start"
    /\ endpoint = "none"
    /\ defaults = None
    /\ resp = None
    /\ loc_result = None
    /\ source_loc = None
    /\ dest_loc = None
    /\ query_params = None
    /\ requests = <<>>
    /\ result = NoResult
    /\ metrics = NoMetrics
    /\ flight_options = <<>>
    /\ NoConcurrency

(***************************************************************************)
(* metrics.rs                                                              *)
(***************************************************************************)
inc_flight_status_success(m) == [m EXCEPT !.success = @ + 1]

inc_flight_status_error(m, status, kind) ==
    [m EXCEPT !.error = Append(@, [status |-> status, kind |-> kind])]

\* ReadApiKey with the missing key taken for an empty one
ReadApiKeyUnchecked ==
    /\ pc = "start"
    /\ pc' = "defaults"
    /\ UNCHANGED <<env_key, now, args, endpoint, defaults, resp, loc_result, source_loc,
                   dest_loc, query_params, requests, result, metrics, flight_options,
                   once, threads, instruments>>

(***************************************************************************)
(* call, line 77: the API key.                                             *)
(***************************************************************************)
ReadApiKey ==
    /\ pc = "start"
    /\ IF env_key.set
       THEN /\ pc' = "defaults"
            /\ result' = result
       ELSE /\ pc' = "done"
            /\ result' = Err("MissingApiKey")
    /\ UNCHANGED <<env_key, now, args, endpoint, defaults, resp, loc_result,
                   source_loc, dest_loc, query_params, requests, metrics, flight_options,
                   once, threads, instruments>>

(***************************************************************************)
(* call, lines 79-97: the defaults.  The return date default parses the    *)
(* departure date with expect, which panics on a string that is no date.   *)
(***************************************************************************)
DefaultDepartureDate(a, today) ==
    UnwrapOr(a.departure_date, FormatDate(today + DepartureOffsetDays))

\* DefaultReturnDate with the seven days left out
DefaultReturnDateSameDay(a, departure_date) ==
    IF IsSome(a.return_date) THEN a.return_date
    ELSE IF IsSome(ParseDate(departure_date)) THEN Some(departure_date)
         ELSE None

\* None stands for the panic of expect("Unable to parse departure_date")
DefaultReturnDate(a, departure_date) ==
    IF IsSome(a.return_date) THEN a.return_date
    ELSE IF IsSome(ParseDate(departure_date))
         THEN Some(FormatDate(Unwrap(ParseDate(departure_date)) + ReturnOffsetDays))
         ELSE None

Defaults(a, today) ==
    LET departure_date == DefaultDepartureDate(a, today)
        return_date == Unwrap(DefaultReturnDate(a, departure_date))
    IN  [ departure_date |-> departure_date,
          service |-> UnwrapOr(a.service, "economy"),
          adults |-> UnwrapOr(a.adults, 1),
          children |-> 0,
          infants |-> 0,
          currency |-> UnwrapOr(a.currency, "USD"),
          market |-> "US",
          in_date |-> departure_date,
          return_date |-> return_date,
          out_date |-> return_date ]

ApplyDefaults ==
    /\ pc = "defaults"
    /\ IF IsSome(DefaultReturnDate(args, DefaultDepartureDate(args, now)))
       THEN /\ defaults' = Some(Defaults(args, now))
            /\ pc' = "ac_send"
            /\ endpoint' = "source"
            /\ result' = result
       ELSE /\ defaults' = defaults
            /\ pc' = "done"
            /\ endpoint' = endpoint
            /\ result' = Panic
    /\ UNCHANGED <<env_key, now, args, resp, loc_result, source_loc, dest_loc,
                   query_params, requests, metrics, flight_options,
                   once, threads, instruments>>

(***************************************************************************)
(* Responses of the provider.  A response is a transport failure (sending  *)
(* the request, or reading the body) or a status with a body; a body       *)
(* either parses as JSON or does not.                                      *)
(***************************************************************************)
Statuses == {200, 404}

\* one element of inputSuggest
Suggestion(nav, params, skyId, entityId) ==
    [ navigation |-> nav,               \* "navigation" is present
      relevantFlightParams |-> params,  \* "navigation.relevantFlightParams" is present
      skyId |-> skyId, entityId |-> entityId ]

SuggestionPool ==
    { Suggestion(TRUE, TRUE, JStr("BOM"), JStr("95673320")),
      Suggestion(TRUE, TRUE, JStr("DEL"), JStr("95673498")),
      Suggestion(FALSE, FALSE, JAbsent, JAbsent),
      Suggestion(TRUE, FALSE, JAbsent, JAbsent),
      Suggestion(TRUE, TRUE, JAbsent, JStr("95673320")),
      Suggestion(TRUE, TRUE, JStr("DEL"), JNum(95673498)) }

SeqsUpTo(S, n) == UNION { [1..k -> S] : k \in 0..n }

\* a parsed auto-complete document: inputSuggest as an array, or None when the
\* key is absent or no array
AutoCompleteDocsUpTo(n) ==
    { [inputSuggest |-> None] }
    \cup { [inputSuggest |-> Some(l)] : l \in SeqsUpTo(SuggestionPool, n) }

NoDoc == [inputSuggest |-> None]

AcResponse(kind, status, parses, doc) ==
    [kind |-> kind, status |-> status, parses |-> parses, doc |-> doc]

AutoCompleteResponsesOf(docs) ==
    { AcResponse("send_error", 0, FALSE, NoDoc) }
    \cup { AcResponse("read_error", st, FALSE, NoDoc) : st \in Statuses }
    \cup { AcResponse("http", st, FALSE, NoDoc) : st \in Statuses }
    \cup { AcResponse("http", st, TRUE, d) :
                st \in { x \in Statuses : ~IsSuccess(x) }, d \in AutoCompleteDocsUpTo(1) }
    \cup { AcResponse("http", st, TRUE, d) :
                st \in { x \in Statuses : IsSuccess(x) }, d \in docs }

\* the responses one whole invocation is run against
CallAutoCompleteResponses == AutoCompleteResponsesOf(AutoCompleteDocsUpTo(1))

\* the responses the resolution alone is run against
ResolveAutoCompleteResponses == AutoCompleteResponsesOf(AutoCompleteDocsUpTo(MaxSuggestions))

(***************************************************************************)
(* resolve_skyscanner_location, lines 339-359: the first suggestion with a *)
(* string skyId and a string entityId.                                     *)
(***************************************************************************)
HasIdPair(item) ==
    /\ item.navigation
    /\ item.relevantFlightParams
    /\ IsSome(AsStr(item.skyId))
    /\ IsSome(AsStr(item.entityId))

\* FirstLocation with the loop running on after a match
RECURSIVE LastLocation(_)
LastLocation(suggestions) ==
    IF suggestions = <<>> THEN None
    ELSE IF IsSome(LastLocation(Tail(suggestions))) THEN LastLocation(Tail(suggestions))
    ELSE IF HasIdPair(Head(suggestions))
         THEN Some([ sky_id |-> Unwrap(AsStr(Head(suggestions).skyId)),
                     entity_id |-> Unwrap(AsStr(Head(suggestions).entityId)) ])
         ELSE None

RECURSIVE FirstLocation(_)
FirstLocation(suggestions) ==
    IF suggestions = <<>> THEN None
    ELSE IF HasIdPair(Head(suggestions))
         THEN Some([ sky_id |-> Unwrap(AsStr(Head(suggestions).skyId)),
                     entity_id |-> Unwrap(AsStr(Head(suggestions).entityId)) ])
         ELSE FirstLocation(Tail(suggestions))

LocationOfDoc(doc) ==
    IF IsSome(doc.inputSuggest) /\ IsSome(FirstLocation(Unwrap(doc.inputSuggest)))
    THEN LocOk(Unwrap(FirstLocation(Unwrap(doc.inputSuggest))))
    ELSE LocErr("InvalidResponse")

\* resolve_skyscanner_location from the response on, lines 325-359
ResolveOutcome(r) ==
    IF r.kind = "send_error" THEN LocErr("HttpRequestFailed")
    ELSE IF r.kind = "read_error" THEN LocErr("HttpRequestFailed")
    ELSE IF ~IsSuccess(r.status)
         THEN LocErrWith("ApiError", ApiErrorMessage("Auto-complete failed", r))
    ELSE IF ~r.parses THEN LocErr("HttpRequestFailed")
    ELSE LocationOfDoc(r.doc)

Request(url, query, params) == [url |-> url, query |-> query, params |-> params]

EndpointQuery(a, e) == IF e = "source" THEN a.source ELSE a.destination

\* resolve_skyscanner_location, lines 310-324: the headers are built (the key is
\* parsed with unwrap) and the request is sent
SendAutoComplete ==
    /\ pc = "ac_send"
    /\ IF env_key.header_ok
       THEN /\ requests' = Append(requests,
                                  Request("auto-complete", EndpointQuery(args, endpoint), None))
            /\ pc' = "ac_await"
            /\ result' = result
       ELSE /\ requests' = requests
            /\ pc' = "done"
            /\ result' = Panic
    /\ UNCHANGED <<env_key, now, args, endpoint, defaults, resp, loc_result,
                   source_loc, dest_loc, query_params, metrics, flight_options,
                   once, threads, instruments>>

\* resolve_skyscanner_location, lines 325-359: the response arrives
RecvAutoCompleteFrom(responses) ==
    /\ pc = "ac_await"
    /\ \E r \in responses :
          /\ resp' = Some(r)
          /\ loc_result' = Some(ResolveOutcome(r))
    /\ pc' = "ac_done"
    /\ UNCHANGED <<env_key, now, args, endpoint, defaults, source_loc, dest_loc,
                   query_params, requests, result, metrics, flight_options,
                   once, threads, instruments>>

RecvAutoComplete == RecvAutoCompleteFrom(CallAutoCompleteResponses)

\* PropagateLocation with a failed resolution replaced by the default location
PropagateLocationLenient ==
    /\ pc = "ac_done"
    /\ LET r == Unwrap(loc_result)
       IN  IF endpoint = "source"
           THEN /\ source_loc' = Some(r.loc)
                /\ dest_loc' = dest_loc
                /\ endpoint' = "destination"
                /\ pc' = "ac_send"
           ELSE /\ dest_loc' = Some(r.loc)
                /\ source_loc' = source_loc
                /\ endpoint' = "none"
                /\ pc' = "build_query"
    /\ resp' = None
    /\ loc_result' = None
    /\ UNCHANGED <<env_key, now, args, defaults, query_params, requests, result, metrics,
                   flight_options,
                   once, threads, instruments>>

\* call, lines 99-100: the ? after each resolution
PropagateLocation ==
    /\ pc = "ac_done"
    /\ LET r == Unwrap(loc_result)
       IN  IF ~r.ok
           THEN /\ result' = ErrWith(r.err, r.msg)
                /\ pc' = "done"
                /\ UNCHANGED <<endpoint, source_loc, dest_loc>>
           ELSE /\ result' = result
                /\ IF endpoint = "source"
                   THEN /\ source_loc' = Some(r.loc)
                        /\ dest_loc' = dest_loc
                        /\ endpoint' = "destination"
                        /\ pc' = "ac_send"
                   ELSE /\ dest_loc' = Some(r.loc)
                        /\ source_loc' = source_loc
                        /\ endpoint' = "none"
                        /\ pc' = "build_query"
    /\ resp' = None
    /\ loc_result' = None
    /\ UNCHANGED <<env_key, now, args, defaults, query_params, requests, metrics, flight_options,
                   once, threads, instruments>>

(***************************************************************************)
(* call, lines 101-118: the query of the search request.                   *)
(***************************************************************************)
QueryParams(d, src, dst) ==
    [ inDate |-> d.in_date,
      outDate |-> d.out_date,
      origin |-> src.sky_id,
      originId |-> src.entity_id,
      destination |-> dst.sky_id,
      destinationId |-> dst.entity_id,
      cabinClass |-> d.service,
      adults |-> ToString(d.adults),
      children |-> ToString(d.children),
      infants |-> ToString(d.infants),
      market |-> d.market,
      currency |-> d.currency ]

BuildQuery ==
    /\ pc = "build_query"
    /\ query_params' = Some(QueryParams(Unwrap(defaults), Unwrap(source_loc), Unwrap(dest_loc)))
    /\ pc' = "search_send"
    /\ UNCHANGED <<env_key, now, args, endpoint, defaults, resp, loc_result,
                   source_loc, dest_loc, requests, result, metrics, flight_options,
                   once, threads, instruments>>

\* call, lines 119-134: the headers are built and the search request is sent
SendSearch ==
    /\ pc = "search_send"
    /\ IF env_key.header_ok
       THEN /\ requests' = Append(requests, Request("roundtrip/list", "", query_params))
            /\ pc' = "search_await"
            /\ result' = result
       ELSE /\ requests' = requests
            /\ pc' = "done"
            /\ result' = Panic
    /\ UNCHANGED <<env_key, now, args, endpoint, defaults, resp, loc_result,
                   source_loc, dest_loc, query_params, metrics, flight_options,
                   once, threads, instruments>>

(***************************************************************************)
(* The search response.  An item carries, for every path the parser reads, *)
(* the JSON scalar found there (absent when a node of the path is missing):*)
(*   airline            legs[0].carriers.marketing[0].name                 *)
(*   flightNumber       legs[0].segments[0].flightNumber                   *)
(*   departure, arrival, durationInMinutes, stopCount      under legs[0]   *)
(*   amount, currencyCode         under pricingOptions[0].price            *)
(*   raw, currency                under price                              *)
(***************************************************************************)
Item(airline, flightNumber, departure, arrival, minutes, stops, amount, code, raw, cur) ==
    [ airline |-> airline, flightNumber |-> flightNumber, departure |-> departure,
      arrival |-> arrival, durationInMinutes |-> minutes, stopCount |-> stops,
      amount |-> amount, currencyCode |-> code, raw |-> raw, currency |-> cur ]

MaxOptions == 5

\* f64 prices in thousandths; {:.2} prints the nearest hundredth (no price of
\* the model lies halfway between two hundredths)
Pad2(n) == IF n < 10 THEN "0" \o ToString(n) ELSE ToString(n)
FormatPrice(p) ==
    LET cents == (p + 5) \div 10
    IN  ToString(cents \div 100) \o "." \o Pad2(cents % 100)

\* lines 206-213
DurationOf(item) ==
    IF IsSome(AsU64(item.durationInMinutes))
    THEN ToString(Unwrap(AsU64(item.durationInMinutes)) \div 60) \o " hours "
         \o ToString(Unwrap(AsU64(item.durationInMinutes)) % 60) \o " minutes"
    ELSE "Unknown duration"

\* PriceOf with price.raw tried first
PriceOfRawFirst(item) == UnwrapOr(OrElse(AsF64(item.raw), AsF64(item.amount)), 0)

\* PriceOf with price.raw consulted whenever the first amount is not above zero
PriceOfPositiveFirst(item) ==
    IF IsSome(AsF64(item.amount)) /\ Unwrap(AsF64(item.amount)) > 0
    THEN Unwrap(AsF64(item.amount))
    ELSE UnwrapOr(AsF64(item.raw), 0)

\* lines 223-235
PriceOf(item) == UnwrapOr(OrElse(AsF64(item.amount), AsF64(item.raw)), 0)

\* CurrencyOf with the literal of the comment at line 236 as the fallback
CurrencyOfUsd(item, currency) ==
    UnwrapOr(OrElse(AsStr(item.currencyCode), AsStr(item.currency)), "USD")

\* lines 237-250
CurrencyOf(item, currency) ==
    UnwrapOr(OrElse(AsStr(item.currencyCode), AsStr(item.currency)), currency)

\* lines 164-250: the FlightOption of one item
FlightOptionOf(item, currency) ==
    [ airline |-> UnwrapOr(AsStr(item.airline), "Unknown Airline"),
      flight_number |-> UnwrapOr(AsStr(item.flightNumber), ""),
      departure |-> UnwrapOr(AsStr(item.departure), ""),
      arrival |-> UnwrapOr(AsStr(item.arrival), ""),
      duration |-> DurationOf(item),
      stops |-> UnwrapOr(AsU64(item.stopCount), 0),
      price |-> PriceOf(item),
      currency |-> CurrencyOf(item, currency) ]

\* Pushed with the comparison not strict
PushedNonNegative(option) == option.price >= 0

\* line 252
Pushed(option) == option.price > 0

\* Full with the comparison off by one
FullOffByOne(options) == Len(options) > MaxOptions

\* lines 264-266
Full(options) == Len(options) >= MaxOptions

\* lines 163-267: the inner loop, which ends the outer loop too once the vector is full
RECURSIVE ParseItems(_, _, _)
ParseItems(items, options, currency) ==
    IF items = <<>> THEN options
    ELSE LET option == FlightOptionOf(Head(items), currency)
             pushed == IF Pushed(option) THEN Append(options, option)
                       ELSE options
         IN  IF Full(pushed) THEN pushed
             ELSE ParseItems(Tail(items), pushed, currency)

\* lines 161-269
RECURSIVE ParseBuckets(_, _, _)
ParseBuckets(buckets, options, currency) ==
    IF buckets = <<>> THEN options
    ELSE LET after == IF IsSome(Head(buckets).items)
                      THEN ParseItems(Unwrap(Head(buckets).items), options, currency)
                      ELSE options
         IN  IF Full(after) THEN after
             ELSE ParseBuckets(Tail(buckets), after, currency)

\* FindItineraries with the wrapped container tried first
FindItinerariesNestedFirst(doc) == OrElse(doc.data_itineraries, doc.itineraries)

\* lines 156-158
FindItineraries(doc) == OrElse(doc.itineraries, doc.data_itineraries)

\* lines 154-271
ParseOptions(doc, currency) ==
    LET itineraries == FindItineraries(doc)
    IN  IF IsSome(itineraries) /\ IsSome(Unwrap(itineraries).buckets)
        THEN ParseBuckets(Unwrap(Unwrap(itineraries).buckets), <<>>, currency)
        ELSE <<>>

NoFlightsSentence == "No flights found for the given criteria."
ReportHeader == "Here are some flight options:\n\n"

\* lines 279-298: the block of one option
Block(i, option) ==
    [ number |-> ToString(i) \o ". ",
      airline |-> option.airline,
      flight_number |-> option.flight_number,
      departure |-> option.departure,
      arrival |-> option.arrival,
      duration |-> option.duration,
      stops |-> IF option.stops = 0 THEN "Non-stop"
                ELSE ToString(option.stops) \o " stop(s)",
      price |-> FormatPrice(option.price) \o " " \o option.currency ]

\* lines 276-299
Render(options) ==
    [i \in 1..Len(options) |-> Block(i, options[i])]

\* call, lines 134-301, from the response on: what call returns and the counters
SearchOutcome(r, currency, m) ==
    LET failed(e, mm) == [result |-> Err(e), metrics |-> mm, flight_options |-> <<>>]
        api_error == ErrWith("ApiError", ApiErrorMessage("Status", r))
    IN  IF r.kind = "send_error" THEN failed("HttpRequestFailed", m)
        ELSE IF r.kind = "read_error" THEN failed("HttpRequestFailed", m)
        ELSE IF ~IsSuccess(r.status)
             THEN [ result |-> api_error,
                    metrics |-> inc_flight_status_error(m, r.status, "ApiError"),
                    flight_options |-> <<>> ]
        ELSE IF ~r.parses THEN failed("HttpRequestFailed", m)
        ELSE LET options == ParseOptions(r.doc, currency)
             IN  IF options = <<>>
                 THEN [ result |-> Ok(NoFlightsSentence, <<>>), metrics |-> m,
                        flight_options |-> options ]
                 ELSE [ result |-> Ok(ReportHeader, Render(options)),
                        metrics |-> inc_flight_status_success(m),
                        flight_options |-> options ]

(***************************************************************************)
(* Search documents.  A document carries the itinerary container at the    *)
(* top level, under "data", at both places or nowhere; a container carries *)
(* "buckets" as an array or not; a bucket carries "items" as an array or   *)
(* not.                                                                    *)
(***************************************************************************)
Bucket(items) == [items |-> items]
Container(buckets) == [buckets |-> buckets]
\* error is any other key of the document: a message the provider reports
ErrorDoc(top, nested, message) ==
    [itineraries |-> top, data_itineraries |-> nested, error |-> message]
Doc(top, nested) == ErrorDoc(top, nested, None)

\* offers that differ in where (and whether) they carry a price and a currency
RichItems ==
    { Item(JStr("Air India"), JStr("AI101"), JStr("2025-05-25T10:00:00"),
           JStr("2025-05-25T12:15:00"), JNum(135), JNum(1),
           JNum(12999), JStr("EUR"), JNum(5000), JStr("GBP")),
      Item(JAbsent, JAbsent, JAbsent, JAbsent, JAbsent, JAbsent,
           JAbsent, JAbsent, JNum(250500), JStr("GBP")),
      Item(JStr("IndiGo"), JStr("6E201"), JAbsent, JAbsent, JStr("135"), JNum(0),
           JNum(0), JStr("EUR"), JNum(5000), JAbsent),
      Item(JStr("Vistara"), JAbsent, JAbsent, JAbsent, JNum(59), JAbsent,
           JAbsent, JAbsent, JAbsent, JAbsent),
      Item(JStr("SpiceJet"), JStr("SG8"), JAbsent, JAbsent, JNum(60), JNum(2),
           JStr("99.00"), JAbsent, JNum(4), JAbsent),
      Item(JStr("Akasa"), JStr("QP1"), JAbsent, JAbsent, JAbsent, JAbsent,
           JNum(-1000), JStr("EUR"), JAbsent, JAbsent) }

\* the k-th offer of a response, priced or not
NumberedItem(k, priced) ==
    Item(JStr("Air India"), JStr(ToString(k)), JAbsent, JAbsent, JNum(60 + k), JNum(0),
         IF priced THEN JNum(1000 * k + 990) ELSE IF k % 2 = 0 THEN JNum(0) ELSE JAbsent,
         JAbsent, JAbsent, JStr("INR"))

\* the offers from place `from` on, in buckets of `size` offers
RECURSIVE Chunks(_, _, _)
Chunks(masks, from, size) ==
    IF from > Len(masks) THEN <<>>
    ELSE LET upto == IF from + size - 1 < Len(masks) THEN from + size - 1 ELSE Len(masks)
         IN  <<Bucket(Some([i \in 1..(upto - from + 1) |->
                               NumberedItem(from + i - 1, masks[from + i - 1])]))>>
             \o Chunks(masks, upto + 1, size)

\* every response of up to MaxOffers offers in buckets of up to MaxBucketSize
\* offers, each offer priced or not and numbered by its place in the response
NumberedContainers ==
    { Container(Some(Chunks(masks, 1, size))) :
        masks \in SeqsUpTo(BOOLEAN, MaxOffers), size \in 1..MaxBucketSize }

RichContainers ==
    { Container(Some(<<Bucket(Some(items))>>)) : items \in SeqsUpTo(RichItems, MaxRichItems) }

OddContainers ==
    { Container(None),
      Container(Some(<<Bucket(None)>>)),
      Container(Some(<<Bucket(None), Bucket(Some(<<NumberedItem(1, TRUE)>>))>>)) }

DocsOf(containers) ==
    { Doc(None, None) }
    \cup { Doc(Some(c), None) : c \in containers }
    \cup { Doc(None, Some(c)) : c \in containers }
    \cup { Doc(Some(c), Some(d)) : c \in OddContainers, d \in OddContainers }

SearchResponse(kind, status, parses, doc) ==
    [kind |-> kind, status |-> status, parses |-> parses, doc |-> doc]

SearchResponsesOf(docs) ==
    { SearchResponse("send_error", 0, FALSE, Doc(None, None)) }
    \cup { SearchResponse("read_error", st, FALSE, Doc(None, None)) : st \in Statuses }
    \cup { SearchResponse("http", st, FALSE, Doc(None, None)) : st \in Statuses }
    \cup { SearchResponse("http", st, TRUE, d) :
                st \in { x \in Statuses : ~IsSuccess(x) }, d \in DocsOf(OddContainers) }
    \cup { SearchResponse("http", st, TRUE, d) :
                st \in { x \in Statuses : IsSuccess(x) }, d \in docs }

\* the responses one whole invocation is run against
CallContainers ==
    OddContainers
    \cup { Container(Some(<<>>)) }
    \cup { Container(Some(<<Bucket(Some(<<i>>))>>)) : i \in RichItems }

\* documents in which the provider reports an error, with and without offers
ErrorDocs ==
    { ErrorDoc(None, None, Some("quota exceeded")),
      ErrorDoc(Some(Container(Some(<<>>))), None, Some("quota exceeded")),
      ErrorDoc(None, Some(Container(Some(<<Bucket(Some(<<NumberedItem(1, TRUE)>>))>>))),
               Some("quota exceeded")) }

CallSearchResponses == SearchResponsesOf(DocsOf(CallContainers) \cup ErrorDocs)

\* the responses the parser alone is run against
ParseSearchResponses ==
    SearchResponsesOf(DocsOf(NumberedContainers \cup RichContainers \cup OddContainers))

\* call, lines 134-301: the response arrives, is parsed and rendered
RecvSearchFrom(responses) ==
    /\ pc = "search_await"
    /\ \E r \in responses :
          LET out == SearchOutcome(r, Unwrap(defaults).currency, metrics)
          IN  /\ resp' = Some(r)
              /\ result' = out.result
              /\ metrics' = out.metrics
              /\ flight_options' = out.flight_options
    /\ pc' = "done"
    /\ UNCHANGED <<env_key, now, args, endpoint, defaults, loc_result, source_loc,
                   dest_loc, query_params, requests,
                   once, threads, instruments>>

RecvSearch == RecvSearchFrom(CallSearchResponses)

Next ==
    \/ ReadApiKey
    \/ ApplyDefaults
    \/ SendAutoComplete
    \/ RecvAutoComplete
    \/ PropagateLocation
    \/ BuildQuery
    \/ SendSearch
    \/ RecvSearch

Spec == Init /\ [][Next]_vars

(***************************************************************************)
(* The parser on its own: an invocation that has resolved both locations   *)
(* and sent the search request, run against every response of the bounds.  *)
(***************************************************************************)
ParseArgs(currency) ==
    [ source |-> "BOM", destination |-> "DEL",
      departure_date |-> Some(DateString(2025, 2, 24)),
      return_date |-> Some(DateString(2025, 3, 1)),
      service |-> None, adults |-> None, currency |-> currency ]

BOM == [sky_id |-> "BOM", entity_id |-> "95673320"]
DEL == [sky_id |-> "DEL", entity_id |-> "95673498"]

InitParse ==
    /\ env_key = [set |-> TRUE, header_ok |-> TRUE]
    /\ now = DayNumber(2025, 11, 5)
    /\ args \in { ParseArgs(c) : c \in Currencies }
    /\ pc = "search_await"
    /\ endpoint = "none"
    /\ defaults = Some(Defaults(args, now))
    /\ resp = None
    /\ loc_result = None
    /\ source_loc = Some(BOM)
    /\ dest_loc = Some(DEL)
    /\ query_params = Some(QueryParams(Defaults(args, now), BOM, DEL))
    /\ requests = << Request("auto-complete", args.source, None),
                     Request("auto-complete", args.destination, None),
                     Request("roundtrip/list", "", query_params) >>
    /\ result = NoResult
    /\ metrics = NoMetrics
    /\ flight_options = <<>>
    /\ NoConcurrency

RecvSearchParse == RecvSearchFrom(ParseSearchResponses)

NextParse == RecvSearchParse

SpecParse == InitParse /\ [][NextParse]_vars

(***************************************************************************)
(* The resolution on its own: an invocation that has applied the defaults, *)
(* run against every auto-complete response of the bounds.                 *)
(***************************************************************************)
ResolveArgs(source, destination) ==
    [ source |-> source, destination |-> destination,
      departure_date |-> None, return_date |-> None,
      service |-> None, adults |-> None, currency |-> None ]

InitResolve ==
    /\ env_key = [set |-> TRUE, header_ok |-> TRUE]
    /\ now = DayNumber(2025, 11, 5)
    /\ args \in { ResolveArgs(src, dst) : src \in Sources, dst \in Destinations }
    /\ pc = "ac_send"
    /\ endpoint = "source"
    /\ defaults = Some(Defaults(args, now))
    /\ resp = None
    /\ loc_result = None
    /\ source_loc = None
    /\ dest_loc = None
    /\ query_params = None
    /\ requests = <<>>
    /\ result = NoResult
    /\ metrics = NoMetrics
    /\ flight_options = <<>>
    /\ NoConcurrency

RecvAutoCompleteResolve == RecvAutoCompleteFrom(ResolveAutoCompleteResponses)

NextResolve ==
    \/ SendAutoComplete
    \/ RecvAutoCompleteResolve
    \/ PropagateLocation

SpecResolve == InitResolve /\ [][NextResolve]_vars

(***************************************************************************)
(* What the claims speak of, stated over the provider's response and not   *)
(* through the parser's definitions.                                       *)
(***************************************************************************)
Done == pc = "done"

\* call has received a success-status search response whose body parsed
SearchParsed ==
    /\ pc = "done"
    /\ IsSome(resp)
    /\ resp[1].kind = "http"
    /\ resp[1].status >= 200 /\ resp[1].status < 300
    /\ resp[1].parses

RECURSIVE ItemsOfBuckets(_)
ItemsOfBuckets(buckets) ==
    IF buckets = <<>> THEN <<>>
    ELSE (IF buckets[1].items = <<>> THEN <<>> ELSE buckets[1].items[1])
         \o ItemsOfBuckets(Tail(buckets))

ItemsOfContainer(c) ==
    IF c = <<>> THEN <<>>
    ELSE IF c[1].buckets = <<>> THEN <<>> ELSE ItemsOfBuckets(c[1].buckets[1])

\* the offers of a document in upstream order
UpstreamOffers(doc) ==
    IF doc.itineraries # <<>> THEN ItemsOfContainer(doc.itineraries)
    ELSE ItemsOfContainer(doc.data_itineraries)

ContainerPresent(doc) == doc.itineraries # <<>> \/ doc.data_itineraries # <<>>

ResolvedPrice(item) ==
    IF item.amount.t = "number" THEN item.amount.n
    ELSE IF item.raw.t = "number" THEN item.raw.n ELSE 0

RequestedCurrency == IF args.currency = <<>> THEN "USD" ELSE args.currency[1]

ResolvedCurrency(item) ==
    IF item.currencyCode.t = "string" THEN item.currencyCode.s
    ELSE IF item.currency.t = "string" THEN item.currency.s ELSE RequestedCurrency

Positive(item) == ResolvedPrice(item) > 0

PositiveOffers(doc) == SelectSeq(UpstreamOffers(doc), Positive)

FlightNumberOf(item) == IF item.flightNumber.t = "string" THEN item.flightNumber.s ELSE ""

\* a price in thousandths written with two decimals, and the currency
PriceLine(item) ==
    LET p == ResolvedPrice(item)
        hundredths == (p \div 10) + (IF p % 10 >= 5 THEN 1 ELSE 0)
        units == hundredths \div 100
        rest == hundredths % 100
    IN  ToString(units) \o "." \o (IF rest < 10 THEN "0" ELSE "") \o ToString(rest)
        \o " " \o ResolvedCurrency(item)

(***************************************************************************)
(* C1: with RAPIDAPI_KEY absent, call fails with MissingApiKey and issues  *)
(* no network request, whatever the arguments.                             *)
(***************************************************************************)
C1_MissingKeyNoRequest ==
    ~env_key.set =>
        /\ requests = <<>>
        /\ pc \in {"start", "done"}
        /\ Done => result = Err("MissingApiKey")

C1_Witness ==
    /\ ~env_key.set
    /\ Done
    /\ result = Err("MissingApiKey")
    /\ args.source # "" /\ args.destination # ""

(***************************************************************************)
(* C2: with an empty source or an empty destination, call returns an error *)
(* and no network request is ever issued (what a panic of call leaves is   *)
(* C3's matter and is not counted here).                                   *)
(***************************************************************************)
C2_EmptyEndpointNoRequest ==
    (args.source = "" \/ args.destination = "") =>
        /\ requests = <<>>
        /\ (Done /\ result.kind # "panic") => result.kind = "err"

(***************************************************************************)
(* C3: every invocation ends by returning a report or one of the four      *)
(* typed errors; none ends in a panic.                                     *)
(***************************************************************************)
C3_AlwaysReturns ==
    Done => \/ result.kind = "ok"
            \/ result.kind = "err" /\ result.err \in ErrorKinds

(***************************************************************************)
(* C4: every FlightOption has a price above zero; an offer whose resolved  *)
(* price is not above zero is never pushed; every rendered offer shows the *)
(* resolved price (two decimals) and currency of the offer it comes from.  *)
(***************************************************************************)
C4_PositivePrices ==
    /\ \A i \in DOMAIN flight_options : flight_options[i].price > 0
    /\ Done => Len(result.blocks) = Len(flight_options)
    /\ SearchParsed =>
        LET offers == UpstreamOffers(resp[1].doc)
        IN  /\ Len(flight_options) <= Len(PositiveOffers(resp[1].doc))
            /\ \A i \in DOMAIN flight_options :
                 \E j \in DOMAIN offers :
                    /\ ResolvedPrice(offers[j]) > 0
                    /\ flight_options[i].price = ResolvedPrice(offers[j])
                    /\ flight_options[i].currency = ResolvedCurrency(offers[j])
                    /\ flight_options[i].flight_number = FlightNumberOf(offers[j])
                    /\ result.blocks[i].flight_number = FlightNumberOf(offers[j])
                    /\ result.blocks[i].price = PriceLine(offers[j])

\* an offer with no price field at all comes before an offer that is rendered
C4_Witness ==
    /\ SearchParsed
    /\ LET offers == UpstreamOffers(resp[1].doc)
       IN  /\ Len(offers) = 2
           /\ offers[1].amount.t = "absent" /\ offers[1].raw.t = "absent"
           /\ ResolvedPrice(offers[2]) > 0
    /\ Len(result.blocks) = 1
    /\ flight_options[1].price > 0

(***************************************************************************)
(* C5: the output holds at most 5 blocks: the first min(5, k) positively   *)
(* priced offers in upstream order, numbered from 1, k being the number of *)
(* positively priced offers of the response.                               *)
(***************************************************************************)
C5_FirstFiveInOrder ==
    SearchParsed =>
        LET pos == PositiveOffers(resp[1].doc)
            n == IF Len(pos) < 5 THEN Len(pos) ELSE 5
        IN  /\ Len(result.blocks) = n
            /\ Len(flight_options) = n
            /\ \A i \in 1..n :
                 /\ result.blocks[i].number = ToString(i) \o ". "
                 /\ result.blocks[i].flight_number = FlightNumberOf(pos[i])
                 /\ result.blocks[i].price = PriceLine(pos[i])

\* six priced offers over two buckets, behind an offer that is not priced
C5_Witness ==
    /\ SearchParsed
    /\ LET offers == UpstreamOffers(resp[1].doc)
       IN  /\ Len(PositiveOffers(resp[1].doc)) > 5
           /\ ~Positive(offers[1])
           /\ resp[1].doc.itineraries # <<>>
           /\ Len(resp[1].doc.itineraries[1].buckets[1]) = 3
           /\ Len(resp[1].doc.itineraries[1].buckets[1][1].items[1]) = 3
    /\ Len(result.blocks) = 5
    /\ result.blocks[1].flight_number = "2"

(***************************************************************************)
(* C6: a success-status response whose container is present and holds no   *)
(* offer, or only offers whose price is not above zero, makes call return  *)
(* Ok with the sentence "No flights found for the given criteria.".        *)
(***************************************************************************)
C6_NoFlightsSentence ==
    ( /\ SearchParsed
      /\ ContainerPresent(resp[1].doc)
      /\ \A c \in {resp[1].doc.itineraries, resp[1].doc.data_itineraries} :
            \A j \in DOMAIN ItemsOfContainer(c) : ~Positive(ItemsOfContainer(c)[j]) )
    => /\ result.kind = "ok"
       /\ result.text = "No flights found for the given criteria."
       /\ result.blocks = <<>>

\* a container with two offers, neither priced above zero
C6_Witness ==
    /\ SearchParsed
    /\ ContainerPresent(resp[1].doc)
    /\ Len(UpstreamOffers(resp[1].doc)) = 2
    /\ PositiveOffers(resp[1].doc) = <<>>
    /\ ResolvedPrice(UpstreamOffers(resp[1].doc)[1]) < 0
    /\ result = Ok("No flights found for the given criteria.", <<>>)

(***************************************************************************)
(* C7: a success-status response that parses and has no itinerary          *)
(* container at all makes call fail with InvalidResponse.                  *)
(***************************************************************************)
C7_MissingContainerIsInvalid ==
    (SearchParsed /\ ~ContainerPresent(resp[1].doc)) => result = Err("InvalidResponse")

(***************************************************************************)
(* C8: each invocation that returns increments exactly one counter once:   *)
(* the success counter when it returns Ok, the error counter tagged with   *)
(* the error kind when it returns an error.                                *)
(***************************************************************************)
C8_OneCounterPerCall ==
    Done =>
        /\ result.kind = "ok" => (metrics.success = 1 /\ metrics.error = <<>>)
        /\ result.kind = "err" =>
              /\ metrics.success = 0
              /\ Len(metrics.error) = 1
              /\ metrics.error[1].kind = result.err

(***************************************************************************)
(* C9: the search request is issued only after both resolutions succeeded; *)
(* the first failing step ends the call with its error and no request      *)
(* follows a failure; no request is repeated: at most three requests, the  *)
(* source's, the destination's and the search, in this order.              *)
(***************************************************************************)
C9_Order ==
    /\ Len(requests) <= 3
    /\ Len(requests) >= 1 =>
          requests[1].url = "auto-complete" /\ requests[1].query = args.source
    /\ Len(requests) >= 2 =>
          /\ requests[2].url = "auto-complete" /\ requests[2].query = args.destination
          /\ source_loc # <<>>
    /\ Len(requests) >= 3 =>
          /\ requests[3].url = "roundtrip/list"
          /\ source_loc # <<>> /\ dest_loc # <<>>
          /\ requests[3].params[1].origin = source_loc[1].sky_id
          /\ requests[3].params[1].destination = dest_loc[1].sky_id
    /\ source_loc = <<>> => dest_loc = <<>>

C9_Step ==
    /\ (pc = "ac_done" /\ ~loc_result[1].ok) =>
          (pc' = "done" /\ result'.kind = "err" /\ result'.err = loc_result[1].err
              /\ requests' = requests)
    /\ result.kind # "none" => (requests' = requests /\ result' = result)
    /\ Len(requests') <= Len(requests) + 1

C9_Sequencing == [][C9_Order /\ C9_Order' /\ C9_Step]_vars

\* the destination's resolution failed: two requests, no search, an error
C9_Witness ==
    /\ Done
    /\ Len(requests) = 2
    /\ source_loc # <<>> /\ dest_loc = <<>>
    /\ result.kind = "err" /\ result.err = "InvalidResponse"

(***************************************************************************)
(* C10: on a success-status auto-complete response that parses,            *)
(* resolve_skyscanner_location returns the pair of the first suggestion    *)
(* carrying a string skyId and a string entityId, and fails with           *)
(* InvalidResponse when no suggestion does (list absent or empty too).     *)
(***************************************************************************)
C10_FirstCompletePair ==
    ( /\ pc = "ac_done"
      /\ resp[1].kind = "http"
      /\ resp[1].status >= 200 /\ resp[1].status < 300
      /\ resp[1].parses )
    => LET sug == IF resp[1].doc.inputSuggest = <<>> THEN <<>>
                  ELSE resp[1].doc.inputSuggest[1]
           complete(i) == /\ sug[i].navigation
                          /\ sug[i].relevantFlightParams
                          /\ sug[i].skyId.t = "string"
                          /\ sug[i].entityId.t = "string"
       IN  IF \E i \in DOMAIN sug : complete(i)
           THEN \E i \in DOMAIN sug :
                   /\ complete(i)
                   /\ \A j \in 1..(i - 1) : ~complete(j)
                   /\ loc_result[1].ok
                   /\ loc_result[1].loc = [ sky_id |-> sug[i].skyId.s,
                                            entity_id |-> sug[i].entityId.s ]
           ELSE /\ ~loc_result[1].ok
                /\ loc_result[1].err = "InvalidResponse"

\* the first suggestion lacks a string entityId, the second is complete
C10_Witness ==
    /\ pc = "ac_done"
    /\ resp[1].kind = "http" /\ resp[1].status = 200 /\ resp[1].parses
    /\ resp[1].doc.inputSuggest # <<>>
    /\ Len(resp[1].doc.inputSuggest[1]) = 2
    /\ resp[1].doc.inputSuggest[1][1].skyId.t = "string"
    /\ resp[1].doc.inputSuggest[1][1].entityId.t = "number"
    /\ loc_result[1].ok
    /\ loc_result[1].loc.sky_id = resp[1].doc.inputSuggest[1][2].skyId.s

(***************************************************************************)
(* C11: an offer that exposes no per-offer currency code (neither          *)
(* pricingOptions[0].price.currencyCode nor price.currency) is rendered    *)
(* with the caller's currency, or "USD" when the caller gave none; an      *)
(* offer that exposes a code is rendered with that code.                   *)
(***************************************************************************)
TwoDecimals(p) ==
    LET hundredths == (p \div 10) + (IF p % 10 >= 5 THEN 1 ELSE 0)
    IN  ToString(hundredths \div 100) \o "."
        \o (IF hundredths % 100 < 10 THEN "0" ELSE "") \o ToString(hundredths % 100)

MonthLength(y, m) ==
    CASE m \in {1, 3, 5, 7, 8, 10, 12} -> 31
      [] m \in {4, 6, 9, 11} -> 30
      [] OTHER -> IF y % 4 = 0 /\ (y % 100 # 0 \/ y % 400 = 0) THEN 29 ELSE 28

NextDay(date) ==
    IF date.d < MonthLength(date.y, date.m) THEN [date EXCEPT !.d = @ + 1]
    ELSE IF date.m < 12 THEN [y |-> date.y, m |-> date.m + 1, d |-> 1]
    ELSE [y |-> date.y + 1, m |-> 1, d |-> 1]

RECURSIVE PlusDays(_, _)
PlusDays(date, n) == IF n = 0 THEN date ELSE PlusDays(NextDay(date), n - 1)

C12_QueryDefaults ==
    Len(requests) = 3 =>
        LET q == requests[3].params[1]
            today == FormatDate(now)
            departure == IF args.departure_date = <<>> THEN PlusDays(today, 30)
                         ELSE args.departure_date[1]
            return == IF args.return_date = <<>> THEN PlusDays(departure, 7)
                      ELSE args.return_date[1]
        IN  /\ q.inDate = departure
            /\ q.outDate = return
            /\ q.adults = IF args.adults = <<>> THEN "1" ELSE ToString(args.adults[1])
            /\ q.children = "0"
            /\ q.currency = IF args.currency = <<>> THEN "USD" ELSE args.currency[1]
            /\ q.cabinClass = IF args.service = <<>> THEN "economy" ELSE args.service[1]

\* nothing but source and destination supplied, on 15 December 2025
C12_Witness ==
    /\ Len(requests) = 3
    /\ args.departure_date = <<>> /\ args.return_date = <<>>
    /\ args.service = <<>> /\ args.adults = <<>> /\ args.currency = <<>>
    /\ FormatDate(now) = [y |-> 2025, m |-> 12, d |-> 15]
    /\ requests[3].params[1].inDate = [y |-> 2026, m |-> 1, d |-> 14]
    /\ requests[3].params[1].outDate = [y |-> 2026, m |-> 1, d |-> 21]

(***************************************************************************)
(* C13: a response of either request that arrives with a non-success       *)
(* status makes the call fail with ApiError carrying that status and that  *)
(* body; the body is not parsed: no location and no flight option comes    *)
(* out of it, whatever it holds.                                           *)
(***************************************************************************)
NonSuccess(r) == r.kind = "http" /\ (r.status < 200 \/ r.status > 299)

Carries(msg, r) ==
    /\ Len(msg) = 1
    /\ msg[1].status = r.status
    /\ msg[1].body = [parses |-> r.parses, doc |-> r.doc]

C13_Resolution ==
    (pc = "ac_done" /\ NonSuccess(resp[1])) =>
        /\ pc' = "done"
        /\ result'.kind = "err" /\ result'.err = "ApiError"
        /\ Carries(result'.msg, resp[1])
        /\ source_loc' = source_loc /\ dest_loc' = dest_loc
        /\ requests' = requests

C13_Search ==
    (pc = "search_await" /\ NonSuccess(resp'[1])) =>
        /\ pc' = "done"
        /\ result'.kind = "err" /\ result'.err = "ApiError"
        /\ Carries(result'.msg, resp'[1])
        /\ flight_options' = <<>> /\ result'.blocks = <<>>

C13_NonSuccessIsApiError == [][C13_Resolution /\ C13_Search]_vars

\* a 404 search response whose body holds a priced offer
C13_Witness ==
    /\ Done
    /\ IsSome(resp) /\ NonSuccess(resp[1]) /\ resp[1].status = 404
    /\ resp[1].parses /\ PositiveOffers(resp[1].doc) # <<>>
    /\ result.kind = "err" /\ result.err = "ApiError"
    /\ flight_options = <<>>

(***************************************************************************)
(* C14: a response received with a success status whose body does not      *)
(* parse as JSON fails with InvalidResponse, for the auto-complete         *)
(* response and the search response alike; HttpRequestFailed is returned   *)
(* only when sending the request or reading the body failed; an unparsable *)
(* body yields no option and no "No flights found" sentence.               *)
(***************************************************************************)
Unparsable(r) == r.kind = "http" /\ r.status >= 200 /\ r.status <= 299 /\ ~r.parses

TransportFailure(r) == r.kind \in {"send_error", "read_error"}

C14_UnparsableIsInvalid ==
    /\ (pc = "ac_done" /\ Unparsable(resp[1])) =>
          (~loc_result[1].ok /\ loc_result[1].err = "InvalidResponse")
    /\ (pc = "ac_done" /\ loc_result[1].err = "HttpRequestFailed") =>
          TransportFailure(resp[1])
    /\ (Done /\ IsSome(resp) /\ Unparsable(resp[1])) =>
          /\ result.kind = "err" /\ result.err = "InvalidResponse"
          /\ flight_options = <<>>
    /\ (Done /\ IsSome(resp) /\ result.err = "HttpRequestFailed") =>
          TransportFailure(resp[1])

(***************************************************************************)
(* C15: a success-status search response that parses and holds an error    *)
(* reported by the provider makes the call fail with ApiError carrying the *)
(* reported message; no option is extracted, no report and no "No flights  *)
(* found" sentence is returned.                                            *)
(***************************************************************************)
C15_ErrorObjectIsApiError ==
    (SearchParsed /\ IsSome(resp[1].doc.error)) =>
        /\ result.kind = "err" /\ result.err = "ApiError"
        /\ result.msg # <<>>
        /\ flight_options = <<>>

(***************************************************************************)
(* C16: the options come from the top-level "itineraries" when that key is *)
(* present, whatever "data.itineraries" holds, and from "data.itineraries" *)
(* only when the top-level key is absent; the container that is used       *)
(* yields the same options at either place.                                *)
(***************************************************************************)
FirstFive(offers) == SubSeq(offers, 1, IF Len(offers) < 5 THEN Len(offers) ELSE 5)

\* the flight numbers of the offers a container yields
NumbersOfContainer(c) ==
    LET kept == FirstFive(SelectSeq(ItemsOfContainer(c), Positive))
    IN  [i \in DOMAIN kept |-> FlightNumberOf(kept[i])]

C16_ContainerLookup ==
    SearchParsed =>
        LET top == resp[1].doc.itineraries
            nested == resp[1].doc.data_itineraries
            used == IF top # <<>> THEN top ELSE nested
            numbers == [i \in DOMAIN flight_options |-> flight_options[i].flight_number]
        IN  /\ top # <<>> => numbers = NumbersOfContainer(top)
            /\ top = <<>> => numbers = NumbersOfContainer(nested)
            /\ flight_options = ParseOptions(Doc(used, None), Unwrap(defaults).currency)
            /\ flight_options = ParseOptions(Doc(None, used), Unwrap(defaults).currency)

\* both keys present: the top-level container holds no offer, the nested one a
\* priced offer, and no option comes out
C16_Witness ==
    /\ SearchParsed
    /\ resp[1].doc.itineraries # <<>>
    /\ resp[1].doc.data_itineraries # <<>>
    /\ ItemsOfContainer(resp[1].doc.itineraries) = <<>>
    /\ SelectSeq(ItemsOfContainer(resp[1].doc.data_itineraries), Positive) # <<>>
    /\ flight_options = <<>>
    /\ result.text = "No flights found for the given criteria."

(***************************************************************************)
(* C17: the price of an offer is pricingOptions[0].price.amount when that  *)
(* is a number, else price.raw when that is a number, else 0; an amount    *)
(* that is a number is final even when it is not above zero: the offer is  *)
(* then left out, whatever price.raw holds.                                *)
(***************************************************************************)
FirstPresentPrice(offer) ==
    IF offer.amount.t = "number" THEN offer.amount.n
    ELSE IF offer.raw.t = "number" THEN offer.raw.n
    ELSE 0

PricedAboveZero(offer) == FirstPresentPrice(offer) > 0

C17_PriceOrder ==
    SearchParsed =>
        LET offers == UpstreamOffers(resp[1].doc)
            kept == FirstFive(SelectSeq(offers, PricedAboveZero))
        IN  /\ Len(flight_options) = Len(kept)
            /\ \A i \in DOMAIN kept :
                  /\ flight_options[i].price = FirstPresentPrice(kept[i])
                  /\ flight_options[i].flight_number = FlightNumberOf(kept[i])
                  /\ kept[i].amount.t = "number" =>
                        flight_options[i].price = kept[i].amount.n
            /\ \A j \in DOMAIN offers :
                  (offers[j].amount.t = "number" /\ offers[j].amount.n <= 0) =>
                      \A i \in DOMAIN flight_options :
                          flight_options[i].flight_number # FlightNumberOf(offers[j])

\* an offer whose amount is 0 and whose price.raw is above zero is left out, and
\* the offer after it, priced by its amount although it has a price.raw, is kept
C17_Witness ==
    /\ SearchParsed
    /\ LET offers == UpstreamOffers(resp[1].doc)
       IN  /\ Len(offers) = 2
           /\ offers[1].amount.t = "number" /\ offers[1].amount.n = 0
           /\ offers[1].raw.t = "number" /\ offers[1].raw.n > 0
           /\ offers[2].amount.t = "number" /\ offers[2].amount.n > 0
           /\ offers[2].raw.t = "number" /\ offers[2].raw.n # offers[2].amount.n
           /\ Len(flight_options) = 1
           /\ flight_options[1].price = offers[2].amount.n

(***************************************************************************)
(* metrics.rs under concurrent search calls.  init_otel has returned       *)
(* (main.rs line 31): the meter provider is installed and SERVICE is set.  *)
(* Every thread runs inc_flight_status_success or inc_flight_status_error, *)
(* up to MaxIncrements times, one step at a time.                          *)
(***************************************************************************)
CallVars == <<env_key, now, args, pc, endpoint, defaults, resp, loc_result, source_loc,
              dest_loc, query_params, requests, result, metrics, flight_options>>

InitMetrics ==
    /\ env_key = [set |-> TRUE, header_ok |-> TRUE]
    /\ now = DayNumber(2025, 11, 5)
    /\ args = ResolveArgs("BOM", "DEL")
    /\ pc = "done"
    /\ endpoint = "none"
    /\ defaults = None
    /\ resp = None
    /\ loc_result = None
    /\ source_loc = None
    /\ dest_loc = None
    /\ query_params = None
    /\ requests = <<>>
    /\ result = NoResult
    /\ metrics = NoMetrics
    /\ flight_options = <<>>
    /\ NoConcurrency

\* metrics.rs lines 7 and 11: a thread enters one of the two functions
CallInc(t) ==
    /\ threads[t].pc = "idle"
    /\ threads[t].left > 0
    /\ \E c \in CounterNames :
          /\ threads' = [threads EXCEPT ![t].pc = "get_counter", ![t].counter = c]
          /\ instruments' = [instruments EXCEPT !.calls[c] = @ + 1]
    /\ UNCHANGED <<CallVars, once>>

\* get_or_init without the lock: whoever finds the cell not yet complete runs
\* the closure
CounterGetOrInitRacy(t) ==
    /\ threads[t].pc = "get_counter"
    /\ LET c == threads[t].counter
       IN  IF once[c].state = "complete"
           THEN /\ threads' = [threads EXCEPT ![t].pc = "add", ![t].ref = once[c].instance]
                /\ instruments' =
                      [instruments EXCEPT !.returned[c] = @ \cup {once[c].instance}]
                /\ once' = once
           ELSE /\ once' = [once EXCEPT ![c].state = "running"]
                /\ threads' = [threads EXCEPT ![t].pc = "get_meter"]
                /\ instruments' = instruments
    /\ UNCHANGED CallVars

\* metrics.rs lines 25-27 and 36-38: COUNTER.get_or_init.  A complete cell hands
\* out its instance; an empty cell is taken and the closure starts; a thread
\* that finds the closure running waits
CounterGetOrInit(t) ==
    /\ threads[t].pc = "get_counter"
    /\ LET c == threads[t].counter
       IN  /\ once[c].state # "running"
           /\ IF once[c].state = "complete"
              THEN /\ threads' = [threads EXCEPT ![t].pc = "add",
                                                 ![t].ref = once[c].instance]
                   /\ instruments' =
                         [instruments EXCEPT !.returned[c] = @ \cup {once[c].instance}]
                   /\ once' = once
              ELSE /\ once' = [once EXCEPT ![c].state = "running"]
                   /\ threads' = [threads EXCEPT ![t].pc = "get_meter"]
                   /\ instruments' = instruments
    /\ UNCHANGED CallVars

\* otel.rs lines 29-31, called at metrics.rs lines 28 and 39: METER.get_or_init
MeterGetOrInit(t) ==
    /\ threads[t].pc = "get_meter"
    /\ once["METER"].state # "running"
    /\ IF once["METER"].state = "complete"
       THEN /\ threads' = [threads EXCEPT ![t].pc = "build"]
            /\ once' = once
       ELSE /\ once' = [once EXCEPT !["METER"].state = "running"]
            /\ threads' = [threads EXCEPT ![t].pc = "global_meter"]
    /\ UNCHANGED <<CallVars, instruments>>

\* otel.rs line 31: the closure global::meter(get_service().as_str()) returns
\* and the cell is set
GlobalMeter(t) ==
    /\ threads[t].pc = "global_meter"
    /\ instruments' = [instruments EXCEPT !.meters = @ + 1]
    /\ once' = [once EXCEPT !["METER"] =
                   [state |-> "complete", instance |-> instruments.meters + 1]]
    /\ threads' = [threads EXCEPT ![t].pc = "build"]
    /\ UNCHANGED CallVars

\* metrics.rs lines 29-32 and 40-43: u64_counter(..).build() returns a new
\* counter, the cell is set and get_or_init returns the reference to it
BuildCounter(t) ==
    /\ threads[t].pc = "build"
    /\ LET c == threads[t].counter
           n == instruments.built[c] + 1
       IN  /\ instruments' = [instruments EXCEPT !.built[c] = n,
                                                 !.value[c] = Append(@, 0),
                                                 !.returned[c] = @ \cup {n}]
           /\ once' = [once EXCEPT ![c] = [state |-> "complete", instance |-> n]]
           /\ threads' = [threads EXCEPT ![t].pc = "add", ![t].ref = n]
    /\ UNCHANGED CallVars

\* metrics.rs lines 8 and 22: Counter::add(1, ..) on the reference obtained
CounterAdd(t) ==
    /\ threads[t].pc = "add"
    /\ LET c == threads[t].counter
       IN  instruments' = [instruments EXCEPT !.value[c][threads[t].ref] = @ + 1]
    /\ threads' = [threads EXCEPT ![t].pc = "idle", ![t].counter = "", ![t].ref = 0,
                                  ![t].left = @ - 1]
    /\ UNCHANGED <<CallVars, once>>

NextMetrics ==
    \E t \in Threads :
        \/ CallInc(t)
        \/ CounterGetOrInit(t)
        \/ MeterGetOrInit(t)
        \/ GlobalMeter(t)
        \/ BuildCounter(t)
        \/ CounterAdd(t)

SpecMetrics == InitMetrics /\ [][NextMetrics]_vars

(***************************************************************************)
(* C18: each of the two counters is built at most once, every access       *)
(* returns that one instance, under any interleaving of the threads, and   *)
(* no increment is lost: the value of a counter is the number of calls of  *)
(* its increment function, less the calls still running.                   *)
(***************************************************************************)
Running(c) == { t \in Threads : threads[t].pc # "idle" /\ threads[t].counter = c }

ValueOf(c) ==
    IF once[c].state = "complete" THEN instruments.value[c][once[c].instance] ELSE 0

C18_OnceAndNoLostIncrement ==
    /\ instruments.meters <= 1
    /\ \A c \in CounterNames :
          /\ instruments.built[c] <= 1
          /\ Cardinality(instruments.returned[c]) <= 1
          /\ ValueOf(c) + Cardinality(Running(c)) = instruments.calls[c]
    /\ \A t \in Threads :
          threads[t].pc = "add" =>
              /\ once[threads[t].counter].state = "complete"
              /\ threads[t].ref = once[threads[t].counter].instance

\* two threads met at the first access of flight_status_error: one is about to
\* build the counter, the other waits; flight_status_success was built and
\* incremented before
C18_Witness ==
    /\ threads[1].pc = "build" /\ threads[1].counter = "flight_status_error"
    /\ threads[2].pc = "get_counter" /\ threads[2].counter = "flight_status_error"
    /\ once["flight_status_error"].state = "running"
    /\ ValueOf("flight_status_success") = 2
    /\ instruments.calls["flight_status_success"] = 2
    /\ instruments.built["flight_status_success"] = 1

====
